---- MODULE Spec2Model ----
(***************************************************************************)
(* Model of update_ips.py: one run of main(), which fetches a list of      *)
(* preferred IPs from a text source, lists the A records of the domain at  *)
(* the DNS provider, deletes each of them and creates one record per       *)
(* selected IP.  Strings are sequences of one-character strings.           *)
(***************************************************************************)
EXTENDS Integers, Sequences, FiniteSets, TLC

\* ------------------------------------------------------------------ bounds
\* longest source body, counted in lines
MaxLines == 6
\* most A records the provider holds before the run
MaxOld == 2

\* ------------------------------------------------------- program constants
MAX_IPS == 5
retry_count == 3

\* --------------------------------------------------------- string helpers
\* the characters str.strip() removes that occur in the modelled bodies
Whitespace == {" ", "\t", "\r", "\n"}

RECURSIVE lstrip(_)
lstrip(s) ==
    IF s = <<>> THEN <<>>
    ELSE IF Head(s) \in Whitespace THEN lstrip(Tail(s)) ELSE s

RECURSIVE rstrip(_)
rstrip(s) ==
    IF s = <<>> THEN <<>>
    ELSE IF s[Len(s)] \in Whitespace THEN rstrip(SubSeq(s, 1, Len(s) - 1)) ELSE s

\* str.strip()
strip(s) == rstrip(lstrip(s))

\* str.split(sep) for a one-character separator: always at least one field
RECURSIVE split(_, _)
split(s, sep) ==
    IF s = <<>> THEN << <<>> >>
    ELSE LET rest == split(Tail(s), sep) IN
         IF Head(s) = sep
         THEN << <<>> >> \o rest
         ELSE << <<Head(s)>> \o Head(rest) >> \o Tail(rest)

\* str.startswith(c) for a one-character prefix
startswith(s, c) == s # <<>> /\ Head(s) = c

\* ------------------------------------------------------ get_preferred_ips
\* the body of the "for line in lines" loop, from line number i on, with the
\* list built so far
\* the loop without the cut at the first '#': the whole line is taken
RECURSIVE ParseLoop_WholeLine(_, _, _)
ParseLoop_WholeLine(lines, i, preferred_ips) ==
    IF i > Len(lines) THEN preferred_ips
    ELSE LET line == lines[i] IN
         IF strip(line) = <<>> \/ startswith(strip(line), "#")
         THEN ParseLoop_WholeLine(lines, i + 1, preferred_ips)
         ELSE LET ip_part == strip(line)
                  appended == IF ip_part # <<>>
                              THEN Append(preferred_ips, ip_part)
                              ELSE preferred_ips
              IN IF Len(appended) >= MAX_IPS
                 THEN appended
                 ELSE ParseLoop_WholeLine(lines, i + 1, appended)

\* the loop without the break at MAX_IPS
RECURSIVE ParseLoop_NoBreak(_, _, _)
ParseLoop_NoBreak(lines, i, preferred_ips) ==
    IF i > Len(lines) THEN preferred_ips
    ELSE LET line == lines[i] IN
         IF strip(line) = <<>> \/ startswith(strip(line), "#")
         THEN ParseLoop_NoBreak(lines, i + 1, preferred_ips)
         ELSE LET ip_part == strip(split(line, "#")[1])
                  appended == IF ip_part # <<>>
                              THEN Append(preferred_ips, ip_part)
                              ELSE preferred_ips
              IN ParseLoop_NoBreak(lines, i + 1, appended)

RECURSIVE ParseLoop(_, _, _)
ParseLoop(lines, i, preferred_ips) ==
    IF i > Len(lines) THEN preferred_ips
    ELSE LET line == lines[i] IN
         IF strip(line) = <<>> \/ startswith(strip(line), "#")
         THEN ParseLoop(lines, i + 1, preferred_ips)
         ELSE LET ip_part == strip(split(line, "#")[1])
                  appended == IF ip_part # <<>>
                              THEN Append(preferred_ips, ip_part)
                              ELSE preferred_ips
              IN IF Len(appended) >= MAX_IPS
                 THEN appended
                 ELSE ParseLoop(lines, i + 1, appended)

\* what get_preferred_ips builds from the text of a successful response
ParseBody(text) == ParseLoop(split(strip(text), "\n"), 1, <<>>)

\* ------------------------------------------------------------------ inputs
\* the lines source bodies are made of: blank, comment with leading blank,
\* plain IP with a carriage return, IP with blanks and a two-'#' comment
SourceLines ==
    { <<>>,
      <<"\t", "#", "1">>,
      <<"1", "\r">>,
      <<" ", "2", " ", "#", "1", "#">> }

RECURSIVE join(_)
join(ls) ==
    IF ls = <<>> THEN <<>>
    ELSE IF Len(ls) = 1 THEN ls[1]
    ELSE ls[1] \o <<"\n">> \o join(Tail(ls))

\* the bodies a successful fetch may carry
Bodies ==
    { join(ls) : ls \in UNION { [1..n -> SourceLines] : n \in 0..MaxLines } }

\* the three configuration values: None, the empty string, or a value
ConfigValues == {"None", "", "set"}

\* a provider record: id and content; before the run record i holds the
\* content OldContent(i), so that an old record can carry a selected IP
OldContent(i) == IF i % 2 = 1 THEN <<"1">> ELSE <<"9">>

InitialRecordSets ==
    { { [id |-> i, content |-> OldContent(i)] : i \in 1..n } : n \in 0..MaxOld }

\* outcomes of the request to the IP source that raise RequestException
FetchFailures == {"transport", "http"}

\* outcomes of the listing request: a transport failure, an HTTP error status,
\* or a 200 response whose body is: not JSON, a JSON array, an object without
\* "result", an object whose "result" is null, "", a non-empty string, a list
\* of non-objects, a list of objects without "id", or the list of the records
ListOutcomes ==
    {"transport", "http", "notjson", "array", "noresult", "null", "emptystr",
     "str", "nonrec", "noid", "records"}

\* outcomes of a deletion request
DeleteOutcomes == {"ok", "http", "transport"}

\* outcomes of a creation request: success, an HTTP error status with or
\* without a JSON body, or a transport failure (no response object)
CreateOutcomes == {"ok", "http_json", "http_nojson", "transport"}

\* ------------------------------------------------------------------- state
VARIABLES
    config,            \* CF_API_TOKEN, CF_ZONE_ID, DOMAIN_NAME
    pc,                \* where main is
    attempt,           \* loop variable of get_preferred_ips
    text,              \* response.text of the successful fetch
    new_ips,           \* new_ips of main
    existing_records,  \* existing_records of main
    di,                \* position of the deletion loop
    ci,                \* position of the creation loop
    success_count,     \* success_count of main
    reported,          \* the tally printed at the end, -1 before
    exc,               \* the exception that left main, "none" if none
    records,           \* the A records the provider holds for the domain
    nextId,            \* the id the provider gives the next record
    initial,           \* the records the provider held before the run
    log                \* the HTTP calls and sleeps made so far, in order

vars == <<config, pc, attempt, text, new_ips, existing_records, di, ci,
          success_count, reported, exc, records, nextId, initial, log>>

\* a log entry: op is "fetch", "sleep", "list", "delete" or "create"
Event(op, id, ip, ok) == [op |-> op, id |-> id, ip |-> ip, ok |-> ok]

\* Python values the listing can return: a list or a string of items
PyList(items) == [t |-> "list", items |-> items]
PyStr(items) == [t |-> "str", items |-> items]
Dict(id) == [kind |-> "dict", hasId |-> TRUE, id |-> id]
DictNoId == [kind |-> "dict", hasId |-> FALSE, id |-> 0]
NonDict == [kind |-> "other", hasId |-> FALSE, id |-> 0]

\* the provider's records as the listing returns them, by id
RECURSIVE RecordList(_)
RecordList(rs) ==
    IF rs = {} THEN <<>>
    ELSE LET r == CHOOSE x \in rs : \A y \in rs : x.id <= y.id
         IN <<Dict(r.id)>> \o RecordList(rs \ {r})

Init ==
    /\ config \in [token : ConfigValues, zone : ConfigValues, domain : ConfigValues]
    /\ pc = "start"
    /\ attempt = 0
    /\ text = <<>>
    /\ new_ips = <<>>
    /\ existing_records = PyList(<<>>)
    /\ di = 1
    /\ ci = 1
    /\ success_count = 0
    /\ reported = -1
    /\ exc = "none"
    /\ records \in InitialRecordSets
    /\ nextId = Cardinality(records) + 1
    /\ initial = records
    /\ log = <<>>

\* Python truthiness of a configuration value
Truthy(v) == v \notin {"None", ""}

\* the validation without the domain name
ConfigOk_TokenAndZone(c) == Truthy(c.token) /\ Truthy(c.zone)

\* main, lines 135-137: all([CF_API_TOKEN, CF_ZONE_ID, DOMAIN_NAME])
ConfigOk(c) == Truthy(c.token) /\ Truthy(c.zone) /\ Truthy(c.domain)

Validate ==
    /\ pc = "start"
    /\ pc' = IF ConfigOk(config) THEN "fetch" ELSE "aborted_config"
    /\ UNCHANGED <<config, attempt, text, new_ips, existing_records, di, ci,
                   success_count, reported, exc, records, nextId, initial, log>>

\* one retry too many: the test against retry_count instead of retry_count - 1
RetryAfterFailure_OffByOne(a) == a < retry_count

\* whether get_preferred_ips sleeps and tries again after a failed attempt
RetryAfterFailure(a) == a < retry_count - 1

\* get_preferred_ips: the request raises RequestException
FetchFail ==
    /\ pc = "fetch"
    /\ \E f \in FetchFailures :
          /\ log' = Append(log, Event("fetch", 0, <<>>, FALSE))
          /\ IF RetryAfterFailure(attempt)
             THEN pc' = "sleep" /\ UNCHANGED new_ips
             ELSE pc' = "fetched" /\ new_ips' = <<>>
    /\ UNCHANGED <<config, attempt, text, existing_records, di, ci,
                   success_count, reported, exc, records, nextId, initial>>

\* get_preferred_ips: time.sleep(retry_delay), then the next attempt
Sleep ==
    /\ pc = "sleep"
    /\ log' = Append(log, Event("sleep", 0, <<>>, TRUE))
    /\ attempt' = attempt + 1
    /\ pc' = "fetch"
    /\ UNCHANGED <<config, text, new_ips, existing_records, di, ci,
                   success_count, reported, exc, records, nextId, initial>>

\* get_preferred_ips: the request succeeds; the body is parsed and returned
FetchOk ==
    /\ pc = "fetch"
    /\ \E body \in Bodies :
          /\ text' = body
          /\ new_ips' = ParseBody(body)
    /\ log' = Append(log, Event("fetch", 0, <<>>, TRUE))
    /\ pc' = "fetched"
    /\ UNCHANGED <<config, attempt, existing_records, di, ci,
                   success_count, reported, exc, records, nextId, initial>>

\* main without the early return on an empty selection
AfterFetch_NoReturn(ips) == "list"

\* main, lines 140-142: where main goes with the list it got
AfterFetch(ips) == IF ips = <<>> THEN "aborted_noips" ELSE "list"

CheckNewIps ==
    /\ pc = "fetched"
    /\ pc' = AfterFetch(new_ips)
    /\ text' = <<>>
    /\ UNCHANGED <<config, attempt, new_ips, existing_records, di, ci,
                   success_count, reported, exc, records, nextId, initial, log>>

\* get_existing_dns_records, lines 81-92: what it returns, or the exception
\* that leaves it.  RequestException covers the transport failure, the error
\* status and the body that is not JSON; KeyError the object without "result".
\* Indexing a JSON array with 'result' and len(None) raise TypeError, which no
\* except clause names.
get_existing_dns_records(outcome, rs) ==
    CASE outcome \in {"transport", "http", "notjson"} ->
            [exc |-> "none", value |-> PyList(<<>>)]
      [] outcome = "noresult" -> [exc |-> "none", value |-> PyList(<<>>)]
      [] outcome \in {"array", "null"} ->
            [exc |-> "TypeError", value |-> PyList(<<>>)]
      [] outcome = "emptystr" -> [exc |-> "none", value |-> PyStr(<<>>)]
      [] outcome = "str" -> [exc |-> "none", value |-> PyStr(<<NonDict>>)]
      [] outcome = "nonrec" -> [exc |-> "none", value |-> PyList(<<NonDict>>)]
      [] outcome = "noid" -> [exc |-> "none", value |-> PyList(<<DictNoId>>)]
      [] outcome = "records" -> [exc |-> "none", value |-> PyList(RecordList(rs))]

\* record['id'] of main, line 149: the exception it raises, "none" if none
IdLookup(item) ==
    IF item.kind # "dict" THEN "TypeError"
    ELSE IF ~item.hasId THEN "KeyError"
    ELSE "none"

\* main going straight to the creations
AfterList_SkipDelete(value) == "create"

\* main, line 146: "if existing_records" is the truth value of the list
AfterList(value) == IF Len(value.items) > 0 THEN "delete" ELSE "create"

\* main, lines 144-151: the listing call and the choice that follows it
ListRecords ==
    /\ pc = "list"
    /\ \E outcome \in ListOutcomes :
          LET r == get_existing_dns_records(outcome, records) IN
          /\ log' = Append(log, Event("list", 0, <<>>, outcome = "records"))
          /\ IF r.exc # "none"
             THEN /\ exc' = r.exc
                  /\ pc' = "crashed"
                  /\ UNCHANGED existing_records
             ELSE /\ existing_records' = r.value
                  /\ pc' = AfterList(r.value)
                  /\ UNCHANGED exc
    /\ UNCHANGED <<config, attempt, text, new_ips, di, ci, success_count,
                   reported, records, nextId, initial>>

\* delete_dns_record, lines 98-105: True on success, False on any
\* RequestException
delete_dns_record(outcome) == outcome = "ok"

\* the deletion loop left after its first round
AfterDelete_StopEarly(i, n, deleted) == "create"

\* the deletion loop left at the first failed deletion
AfterDelete_HaltOnFailure(i, n, deleted) ==
    IF deleted /\ i < n THEN "delete" ELSE "create"

\* main, line 148: where the deletion loop goes after record number i of n
AfterDelete(i, n, deleted) == IF i < n THEN "delete" ELSE "create"

\* main, lines 148-149: one round of the deletion loop
DeleteRecord ==
    /\ pc = "delete"
    /\ LET item == existing_records.items[di] IN
       IF IdLookup(item) # "none"
       THEN /\ exc' = IdLookup(item)
            /\ pc' = "crashed"
            /\ UNCHANGED <<di, records, log>>
       ELSE \E outcome \in DeleteOutcomes :
               LET deleted == delete_dns_record(outcome) IN
               /\ log' = Append(log, Event("delete", item.id, <<>>, deleted))
               /\ records' = IF outcome = "ok"
                             THEN { r \in records : r.id # item.id }
                             ELSE records
               /\ di' = di + 1
               /\ pc' = AfterDelete(di, Len(existing_records.items), deleted)
               /\ UNCHANGED exc
    /\ UNCHANGED <<config, attempt, text, new_ips, existing_records, ci,
                   success_count, reported, nextId, initial>>

\* create_dns_record, lines 116-129: what it returns, or the exception that
\* leaves it.  After a transport failure the name response is unbound, and
\* response.json() raises UnboundLocalError, which the inner except clause
\* (json.JSONDecodeError, AttributeError) does not name.
create_dns_record(outcome) ==
    CASE outcome = "ok" -> [exc |-> "none", ret |-> TRUE]
      [] outcome = "http_json" -> [exc |-> "none", ret |-> FALSE]
      [] outcome = "http_nojson" -> [exc |-> "none", ret |-> FALSE]
      [] outcome = "transport" -> [exc |-> "UnboundLocalError", ret |-> FALSE]

\* main, line 155: where the creation loop goes after IP number i of n
AfterCreate(i, n) == IF i < n THEN "create" ELSE "done"

\* main, lines 155-160: one round of the creation loop, and the report after
\* the last
CreateRecord ==
    /\ pc = "create"
    /\ \E outcome \in CreateOutcomes :
          LET ip == new_ips[ci]
              r == create_dns_record(outcome)
          IN
          /\ log' = Append(log, Event("create", 0, ip, outcome = "ok"))
          /\ IF outcome = "ok"
             THEN /\ records' = records \cup {[id |-> nextId, content |-> ip]}
                  /\ nextId' = nextId + 1
             ELSE UNCHANGED <<records, nextId>>
          /\ IF r.exc # "none"
             THEN /\ exc' = r.exc
                  /\ pc' = "crashed"
                  /\ UNCHANGED <<ci, success_count, reported>>
             ELSE /\ success_count' = IF r.ret THEN success_count + 1
                                      ELSE success_count
                  /\ ci' = ci + 1
                  /\ pc' = AfterCreate(ci, Len(new_ips))
                  /\ reported' = IF pc' = "done" THEN success_count' ELSE reported
                  /\ UNCHANGED exc
    /\ UNCHANGED <<config, attempt, text, new_ips, existing_records, di, initial>>

Next ==
    \/ Validate
    \/ FetchFail
    \/ Sleep
    \/ FetchOk
    \/ CheckNewIps
    \/ ListRecords
    \/ DeleteRecord
    \/ CreateRecord

Spec == Init /\ [][Next]_vars

\* ------------------------------------------------------ reading the log
IsFetch(e) == e.op = "fetch"
IsSleep(e) == e.op = "sleep"
IsList(e) == e.op = "list"
IsDelete(e) == e.op = "delete"
IsCreate(e) == e.op = "create"

Fetches == SelectSeq(log, IsFetch)
Lists == SelectSeq(log, IsList)
Deletes == SelectSeq(log, IsDelete)
Creates == SelectSeq(log, IsCreate)

AllOk(es) == \A i \in DOMAIN es : es[i].ok
OkCount(es) == Cardinality({ i \in DOMAIN es : es[i].ok })

Ended == pc \in {"aborted_config", "aborted_noips", "done", "crashed"}

\* ------------------------------------------------------------------- C5
AnyConfigMissing ==
    \/ config.token \in {"None", ""}
    \/ config.zone \in {"None", ""}
    \/ config.domain \in {"None", ""}

\* C5: when any one of the API token, the zone id and the domain name is
\* missing or empty, main returns before any HTTP call: the log of calls stays
\* empty and main is at its start or has returned from the validation.
C5_NoCallWithoutConfig ==
    AnyConfigMissing => log = <<>> /\ pc \in {"start", "aborted_config"}

\* only the domain name is empty, and main has returned
C5_Witness ==
    /\ pc = "aborted_config"
    /\ config = [token |-> "set", zone |-> "set", domain |-> ""]

\* ------------------------------------------------------------------- C4
\* C4: a run whose fetch failed on every attempt, or whose successful fetch
\* yielded no candidate, ends right after the fetch: no listing, deletion or
\* creation call is ever made while the selection is empty, and the provider's
\* records are the ones it held before the run.
C4_NoIpsNoCalls ==
    /\ new_ips = <<>> =>
          /\ Lists = <<>> /\ Deletes = <<>> /\ Creates = <<>>
          /\ records = initial
          /\ pc \in {"start", "aborted_config", "fetch", "sleep", "fetched",
                     "aborted_noips"}
    /\ pc = "aborted_noips" => new_ips = <<>> /\ reported = -1

\* all three attempts failed, the provider held records, and main returned
C4_Witness ==
    /\ pc = "aborted_noips"
    /\ Len(Fetches) = retry_count
    /\ \A i \in DOMAIN Fetches : ~Fetches[i].ok
    /\ initial # {}
    /\ records = initial

\* ------------------------------------------------------------------- C7
\* The candidates of a body, stated on positions rather than by the loop.
\* positions of the line breaks of a body
Breaks(t) == { i \in 1..Len(t) : t[i] = "\n" }

\* the k-th line break, Len(t) + 1 past the last
BreakAt(t, k) ==
    LET B == Breaks(t) IN
    IF k = 0 THEN 0
    ELSE IF k > Cardinality(B) THEN Len(t) + 1
    ELSE CHOOSE i \in B : Cardinality({ j \in B : j < i }) = k - 1

\* the k-th line of a body
LineOf(t, k) == SubSeq(t, BreakAt(t, k - 1) + 1, BreakAt(t, k) - 1)

Visible(s) == { i \in 1..Len(s) : s[i] \notin Whitespace }
Least(S) == CHOOSE i \in S : \A j \in S : i <= j
Greatest(S) == CHOOSE i \in S : \A j \in S : i >= j

\* a text without the whitespace around it
Trimmed(s) ==
    LET V == Visible(s) IN
    IF V = {} THEN <<>> ELSE SubSeq(s, Least(V), Greatest(V))

\* a line that is neither blank nor a comment
Qualifies(l) == LET V == Visible(l) IN V # {} /\ l[Least(V)] # "#"

\* the text of a line before its first '#'
BeforeHash(l) ==
    LET H == { i \in 1..Len(l) : l[i] = "#" }
    IN IF H = {} THEN l ELSE SubSeq(l, 1, Least(H) - 1)

IpPortion(l) == Trimmed(BeforeHash(l))

\* the numbers of the qualifying lines with a non-empty IP portion
QualifyingLines(t) ==
    { k \in 1..(Cardinality(Breaks(t)) + 1) :
        LET l == LineOf(t, k) IN Qualifies(l) /\ IpPortion(l) # <<>> }

\* the n-th smallest member of a set of numbers
Nth(S, n) == CHOOSE k \in S : Cardinality({ j \in S : j < k }) = n - 1

Min(a, b) == IF a < b THEN a ELSE b

\* the IP portions of the first MAX_IPS qualifying lines, in source order
Candidates(t) ==
    LET Q == QualifyingLines(t) IN
    [ n \in 1..Min(MAX_IPS, Cardinality(Q)) |-> IpPortion(LineOf(t, Nth(Q, n))) ]

FetchReturnedOk == pc = "fetched" /\ log # <<>> /\ log[Len(log)].ok

\* C7: the list get_preferred_ips returns from a successful response holds
\* exactly the IP portions (text before the first '#', whitespace removed) of
\* the non-blank, non-comment lines of the body, in source order, cut to the
\* first MAX_IPS of them.
C7_ParsedCandidates ==
    FetchReturnedOk => new_ips = Candidates(text)

\* a body with a blank line, a comment line and an "IP#comment" line, parsed
\* to at least two candidates that are not all the same
C7_Witness ==
    /\ FetchReturnedOk
    /\ \E k \in 1..(Cardinality(Breaks(text)) + 1) : LineOf(text, k) = <<>>
    /\ \E k \in 1..(Cardinality(Breaks(text)) + 1) :
          /\ Visible(LineOf(text, k)) # {}
          /\ ~Qualifies(LineOf(text, k))
    /\ \E k \in QualifyingLines(text) : BeforeHash(LineOf(text, k)) # LineOf(text, k)
    /\ Len(new_ips) >= 2
    /\ \E i, j \in DOMAIN new_ips : new_ips[i] # new_ips[j]

\* ------------------------------------------------------------------- C8
\* C8: the list get_preferred_ips returns never has more than MAX_IPS
\* entries, whatever the body and the fetch outcomes, and a run never makes
\* more than MAX_IPS creation calls.
C8_AtMostMaxIps ==
    /\ Len(new_ips) <= MAX_IPS
    /\ Len(Creates) <= MAX_IPS

\* a body with more than MAX_IPS qualifying lines was cut to MAX_IPS
C8_Witness ==
    /\ FetchReturnedOk
    /\ Cardinality(QualifyingLines(text)) > MAX_IPS
    /\ Len(new_ips) = MAX_IPS

\* ------------------------------------------------------------------- C3
\* the ids of the records the listing returned, in order
ListedIds == [ i \in DOMAIN existing_records.items |-> existing_records.items[i].id ]

\* the ids the deletion calls made so far were for, in order
DeletedIds == [ i \in DOMAIN Deletes |-> Deletes[i].id ]

ListedRecords == Lists # <<>> /\ Lists[1].ok /\ pc # "list"

\* C3: given the N records a successful listing returned, main makes exactly
\* N deletion calls, one per listed id in list order and no id twice, whether
\* or not individual deletions fail; while the loop runs the calls made are
\* the first di - 1 of them.
C3_OneDeletionPerRecord ==
    ListedRecords =>
       /\ pc = "delete" => DeletedIds = SubSeq(ListedIds, 1, di - 1)
       /\ pc # "delete" => DeletedIds = ListedIds
       /\ \A i, j \in DOMAIN DeletedIds : DeletedIds[i] = DeletedIds[j] => i = j

\* the loop is over, two records were listed and the first deletion failed
C3_Witness ==
    /\ ListedRecords
    /\ pc = "create"
    /\ Len(ListedIds) >= 2
    /\ Len(Deletes) = Len(ListedIds)
    /\ ~Deletes[1].ok

\* ------------------------------------------------------------------- C1
\* a run to the end in which the listing, every deletion and every creation
\* succeeded
SuccessfulRun ==
    /\ pc = "done"
    /\ Lists # <<>> /\ Lists[1].ok
    /\ AllOk(Deletes)
    /\ AllOk(Creates)

SelectedIps == { new_ips[i] : i \in DOMAIN new_ips }
RecordsWith(ip) == { r \in records : r.content = ip }
NoOldRecordLeft == \A o \in initial : \A r \in records : r.id # o.id

\* C1 as stated: after a successful run no record from before the run is
\* left and the provider holds exactly one record per selected IP, also for
\* an IP the source repeats.
C1_OneRecordPerIp ==
    SuccessfulRun =>
       /\ NoOldRecordLeft
       /\ \A r \in records : r.content \in SelectedIps
       /\ \A ip \in SelectedIps : Cardinality(RecordsWith(ip)) = 1

\* C1 (amended): after a successful run no record from before the run is
\* left and the provider holds exactly one record per entry of the selected
\* list: every record carries a selected IP, and an IP has as many records as
\* it has entries in the list (one when the list does not repeat it).
C1_OneRecordPerEntry ==
    SuccessfulRun =>
       /\ NoOldRecordLeft
       /\ \A r \in records : r.content \in SelectedIps
       /\ \A ip \in SelectedIps :
             Cardinality(RecordsWith(ip)) =
                Cardinality({ i \in DOMAIN new_ips : new_ips[i] = ip })
       /\ Cardinality(records) = Len(new_ips)

\* a successful run that replaced old records, one of which carried a
\* selected IP, with a selection that repeats an IP
C1_Witness ==
    /\ SuccessfulRun
    /\ initial # {}
    /\ \E o \in initial : o.content \in SelectedIps
    /\ \E i, j \in DOMAIN new_ips : i # j /\ new_ips[i] = new_ips[j]
    /\ Cardinality(SelectedIps) >= 2

\* ------------------------------------------------------------------- C2
\* C2: once the creation loop has begun and main is over, there was one
\* creation call per selected IP, in list order, whatever each call's outcome,
\* and the reported tally is the number of calls that succeeded.
C2_EveryIpAttempted ==
    (Ended /\ Creates # <<>>) =>
       /\ [ i \in DOMAIN Creates |-> Creates[i].ip ] = new_ips
       /\ reported = OkCount(Creates)

\* ------------------------------------------------------------------- C6
\* C6: after a listing that failed (transport failure, error status or
\* malformed response) get_existing_dns_records has returned an empty list and
\* the run goes on: no deletion call is made and main is in or past the
\* creation loop, which only a failure of a creation call can cut short.
C6_ListingFailureIsNoRecords ==
    (Lists # <<>> /\ ~Lists[1].ok) =>
       /\ existing_records = PyList(<<>>)
       /\ Deletes = <<>>
       /\ pc \in {"create", "done", "crashed"}
       /\ pc = "crashed" => Creates # <<>>

\* ------------------------------------------------------------------- C9
FailedFetch(e) == e.op = "fetch" /\ ~e.ok
FetchesBefore(i) == Cardinality({ j \in 1..(i - 1) : log[j].op = "fetch" })

RetryDiscipline ==
    /\ Len(Fetches) <= 3
    /\ \A i \in DOMAIN log :
          /\ (log[i].op = "fetch" /\ i > 1) =>
                log[i - 1].op = "sleep"
          /\ log[i].op = "sleep" =>
                /\ i > 1 /\ FailedFetch(log[i - 1])
                /\ FetchesBefore(i) < 3
                /\ i < Len(log) => log[i + 1].op = "fetch"
          /\ (log[i].op = "fetch" /\ log[i].ok) =>
                \A j \in DOMAIN log : j > i => log[j].op \notin {"fetch", "sleep"}
    /\ (Len(Fetches) = 3 /\ ~Fetches[3].ok) => pc # "sleep"
    /\ (pc = "fetched" /\ ~log[Len(log)].ok) => Len(Fetches) = 3 /\ new_ips = <<>>

\* what is left of the retry loop: two steps per attempt not yet made, one
\* less while it sleeps; nothing once the function has returned
FetchMeasure ==
    IF pc = "fetch" THEN 2 * (3 - attempt)
    ELSE IF pc = "sleep" THEN 2 * (3 - attempt) - 1
    ELSE 0

\* inside get_preferred_ips a step can be taken, and every step taken uses up
\* some of what is left of the loop
FetchProgress ==
    pc \in {"fetch", "sleep"} =>
       /\ FetchMeasure > 0
       /\ ENABLED (FetchFail \/ Sleep)
       /\ FetchMeasure' < FetchMeasure
       /\ FetchMeasure' >= 0

\* C9: get_preferred_ips makes at most 3 requests; a request other than the
\* first follows a sleep, a sleep follows a failed request and never the
\* third; after a successful response there is no further request or sleep,
\* also when it yields no candidate; after three failures the list returned
\* is empty; and the function always returns: each of its steps can be taken
\* and uses up a bounded measure of the loop.
C9_RetryAndReturn ==
    /\ []RetryDiscipline
    /\ [][FetchProgress]_vars

\* two failures, two sleeps, then a successful response without candidates,
\* returned as the empty list
C9_Witness ==
    /\ pc = "fetched"
    /\ Len(Fetches) = 3
    /\ ~Fetches[1].ok /\ ~Fetches[2].ok /\ Fetches[3].ok
    /\ Len(SelectSeq(log, IsSleep)) = 2
    /\ new_ips = <<>>

\* ------------------------------------------------------------------ C10
\* C10: the calls of a run are in the order fetch, list, deletions,
\* creations: at most one listing, made right after a successful fetch with a
\* non-empty selection and exactly once when main is past it; deletions only
\* after the listing; creations only after a deletion call for every listed
\* record.  Nothing is rolled back: creations are for the selected IPs only,
\* a record whose deletion succeeded stays absent, and the provider holds the
\* old records minus the deleted plus the created ones.
C10_StrictSequence ==
    /\ Len(Lists) <= 1
    /\ pc \in {"delete", "create", "done"} => Len(Lists) = 1
    /\ \A i \in DOMAIN log :
          /\ log[i].op = "list" =>
                /\ i > 1 /\ log[i - 1].op = "fetch" /\ log[i - 1].ok
                /\ new_ips # <<>>
                /\ \A j \in 1..(i - 1) : log[j].op \in {"fetch", "sleep"}
          /\ log[i].op = "delete" =>
                \E j \in 1..(i - 1) : log[j].op = "list"
          /\ log[i].op = "create" =>
                /\ \E j \in 1..(i - 1) : log[j].op = "list"
                /\ \A j \in DOMAIN log : log[j].op = "delete" => j < i
    /\ Creates # <<>> => Len(Deletes) = Len(existing_records.items)
    /\ \A i \in DOMAIN Creates : i <= Len(new_ips) /\ Creates[i].ip = new_ips[i]
    /\ \A i \in DOMAIN Deletes :
          Deletes[i].ok => \A r \in records : r.id # Deletes[i].id
    /\ Cardinality(records) =
          Cardinality(initial) - OkCount(Deletes) + OkCount(Creates)

\* a run that deleted every old record, failed every creation and ended with
\* no record at all
C10_Witness ==
    /\ pc = "done"
    /\ initial # {}
    /\ records = {}
    /\ Len(Creates) >= 2
    /\ reported = 0
====
